---- MODULE Spec2Model ----
(***************************************************************************)
(* A model of yap, an installer for npm packages (src/yap.py): the         *)
(* concurrent resolver that walks the dependency graph behind a seen-set,  *)
(* the lockfile, the download stage behind the tarball set, and the        *)
(* hardlink/symlink layout of node_modules.                                *)
(***************************************************************************)
EXTENDS Integers, Sequences, FiniteSets, TLC

\* Runs of the pipeline in one behaviour (the process is started again).
MaxRuns == 2
\* ThreadPoolExecutor(max_workers=10) of one resolve_dependency_and_queue_urls call.
MaxWorkers == 10
\* ThreadPoolExecutor(max_workers=10) of the download stage in main.
DownloadWorkers == 10

----------------------------------------------------------------------------
\* Versions are (major, minor, patch) triples; specifiers are the parts of the
\* specifier string the code looks at: its prefix (startswith), for "npm:" the
\* aliased name, then the operator and the version of the semver expression.

V100 == <<1, 0, 0>>
V120 == <<1, 2, 0>>
V999 == <<9, 9, 9>>

Exact(v) == [pre |-> "", name |-> "", op |-> "=", v |-> v]
Caret(v) == [pre |-> "", name |-> "", op |-> "^", v |-> v]
AnyVer == [pre |-> "", name |-> "", op |-> "*", v |-> <<0, 0, 0>>]
GitSpec == [pre |-> "git+", name |-> "", op |-> "", v |-> <<0, 0, 0>>]
FileSpec == [pre |-> "file:", name |-> "", op |-> "", v |-> <<0, 0, 0>>]
Alias(n, v) == [pre |-> "npm:", name |-> n, op |-> "=", v |-> v]

Dep(n, s) == [name |-> n, spec |-> s]

\* The registry the runs talk to: a stable one, the same for every run.
\* c1 -> c2 -> ... -> c11 is a dependency chain deeper than one pool.
ChainLen == MaxWorkers + 1
Chain == SubSeq(<< "c1", "c2", "c3", "c4", "c5", "c6", "c7", "c8", "c9", "c10", "c11", "c12" >>,
                1, ChainLen)
ChainNames == {Chain[n] : n \in 1..ChainLen}
ChainIndex(name) == CHOOSE n \in 1..ChainLen : Chain[n] = name

Packages == {"leaf", "shared", "x", "y", "p", "q", "gd", "ua", "wd", "fl", "down", "badtar",
             "brok"}
              \cup ChainNames

\* HTTP status of GET <registry>/<name>.
RegistryStatus(name) == IF name \in Packages \ {"down"} THEN 200 ELSE 404

\* package_metadata["versions"].keys()
Versions(name) ==
  CASE name = "shared" -> {V100, V120}
    [] name \in Packages \ {"shared"} -> {V100}
    [] OTHER -> {}

\* package_metadata["versions"][v].get("dependencies", {}), in the order of the document.
Dependencies(name, v) ==
  CASE name = "x" -> << Dep("shared", Exact(V100)) >>
    [] name = "y" -> << Dep("shared", Caret(V120)) >>
    [] name = "p" -> << Dep("q", AnyVer) >>
    [] name = "q" -> << Dep("p", AnyVer) >>
    [] name = "gd" -> << Dep("g", GitSpec) >>
    [] name = "wd" -> << Dep("down", AnyVer) >>
    [] name = "ua" -> << Dep("al", Alias("leaf", V100)) >>
    [] name \in ChainNames /\ name # Chain[ChainLen] ->
         << Dep(Chain[ChainIndex(name) + 1], Caret(V100)) >>
    [] OTHER -> << >>

\* HTTP status of GET version_metadata["dist"]["tarball"].
TarballStatus(name, v) == IF name = "badtar" THEN 404 ELSE 200

\* Whether tar.extract raises on a member of the tarball after earlier members
\* were written (a regular file package/a followed by package/a/b).
ExtractRaises(name, v) == name = "brok"

\* What a package.json may list (load_package_json merges the three mappings).
RootChoices ==
  << Dep("leaf", Caret(V100)), Dep("al", Alias("leaf", V100)), Dep("x", Exact(V100)),
     Dep("y", Exact(V100)), Dep("p", AnyVer), Dep("gd", Caret(V100)), Dep("g", GitSpec),
     Dep("ua", Exact(V100)), Dep("wd", AnyVer), Dep("badtar", AnyVer),
     Dep("shared", Exact(V999)), Dep("fl", FileSpec), Dep("brok", AnyVer) >>

RECURSIVE Pick(_, _)
Pick(choices, S) ==
  IF S = {} THEN << >>
  ELSE LET m == CHOOSE a \in S : \A b \in S : a <= b
       IN << choices[m] >> \o Pick(choices, S \ {m})

\* The manifests of the runs: no entry, one of the choices, or any two of them.
Few(n) == {{}} \cup {{a, b} : a, b \in 1..n}
Manifests == {Pick(RootChoices, S) : S \in Few(Len(RootChoices))}

\* The manifests of the deep-resolution runs: the chain, alone or beside one more root.
DeepChoices == << Dep("c1", Caret(V100)), Dep("p", AnyVer), Dep("wd", AnyVer), Dep("g", GitSpec) >>
DeepManifests == {Pick(DeepChoices, S) : S \in Few(Len(DeepChoices))}

----------------------------------------------------------------------------
VARIABLES
  manifest,   \* package.json: the root dependency mapping, in its order
  run,        \* which run of the program this is
  pc,         \* where main is
  fresh,      \* this run started with no yap.lock and an empty node_modules
  lockfile,   \* yap.lock on disk
  plan,       \* lock_file_details
  resolved,   \* main entered the resolver stage in this run
  seen,       \* METADATA_DOWNLOADED_PACKAGES
  jobs,       \* the futures of resolve_single_dependency, by (submitting package, name)
  cache,      \* the metadata cache files under .yap_store/.yap_cache
  dlseen,     \* TARBALL_DOWNLOADED_PACKAGES
  dl,         \* the futures of download_and_extract_package, one per plan entry
  fetched,    \* the tarball GETs of this run, in the order they were sent
  store,      \* the package directories under .yap_store
  farm,       \* the directories under node_modules/.yap
  rootlink,   \* the symlinks node_modules/<name>
  inlinks,    \* the symlinks node_modules/.yap/<farm>/node_modules/<dep>
  i,          \* the loop index of main's layout loops
  prev,       \* what the previous run left: its lockfile and symlinks
  call,       \* resolver.py: a call of resolve_version or check_version and its outcome
  mp          \* main.py: downloaded_packages, the download_package calls, the disk

\* The variables of yap.py's installer.
yap == << manifest, run, pc, fresh, lockfile, plan, resolved, seen, jobs, cache,
         dlseen, dl, fetched, store, farm, rootlink, inlinks, i, prev >>

vars == << yap, call, mp >>

----------------------------------------------------------------------------
\* Functions with a growing domain.
Put(f, k, v) == [x \in DOMAIN f \cup {k} |-> IF x = k THEN v ELSE f[x]]
Empty == [x \in {} |-> 0]

NV(name, v) == [name |-> name, version |-> v]

----------------------------------------------------------------------------
\* semantic_version, as resolve_version uses it.

VLess(a, b) ==
  \/ a[1] < b[1]
  \/ a[1] = b[1] /\ a[2] < b[2]
  \/ a[1] = b[1] /\ a[2] = b[2] /\ a[3] < b[3]

VLeq(a, b) == a = b \/ VLess(a, b)

\* NpmSpec(wanted_version) raises ValueError on a string that is no semver range.
Parses(want) == want.pre = "" /\ want.op \in {"=", "^", "*"}

\* v in NpmSpec(want): npm's caret pivots on the left-most non-zero component.
Satisfies(v, want) ==
  CASE want.op = "*" -> TRUE
    [] want.op = "^" ->
         /\ VLeq(want.v, v)
         /\ IF want.v[1] > 0 THEN v[1] = want.v[1]
            ELSE IF want.v[2] > 0 THEN v[1] = 0 /\ v[2] = want.v[2]
            ELSE v = want.v
    [] OTHER -> v = want.v

\* NpmSpec.select: the highest version that satisfies, or None.
Select(want, available) ==
  LET ok == {v \in available : Satisfies(v, want)}
  IN IF ok = {} THEN [none |-> TRUE, v |-> <<0, 0, 0>>]
     ELSE [none |-> FALSE, v |-> CHOOSE v \in ok : \A w \in ok : VLeq(w, v)]

\* selected_version.__str__(): the text of the version, and "None" for None.
ResolveVersion(want, available) ==
  LET sel == Select(want, available)
  IN [text |-> IF sel.none THEN "None" ELSE "version", v |-> sel.v]

\* `not resolved_version`: only the empty string is falsy.
IsFalsy(str) == str.text = ""

\* resolved_version is a key of package_metadata["versions"].
HasVersion(name, str) == str.text = "version" /\ str.v \in Versions(name)

\* safe_package_details(version[4:]): the name and the version after "npm:".
SafePackageDetails(spec) == [name |-> spec.name, want |-> [spec EXCEPT !.pre = "", !.name = ""]]

----------------------------------------------------------------------------
\* resolver.py (and the same code in main.py). A constraint is the sequence of
\* its characters, the text of a version being one of them.

Sign(c) == [c |-> c, v |-> <<0, 0, 0>>]
Ver(v) == [c |-> "v", v |-> v]

\* str.startswith(prefix) and the slice constraint[n:].
StartsWith(s, prefix) == Len(s) >= Len(prefix) /\ SubSeq(s, 1, Len(prefix)) = prefix
Drop(s, n) == SubSeq(s, n + 1, Len(s))

\* sep in s
Contains(s, sep) == \E n \in 1..Len(s) : s[n] = sep

\* s.split(sep): the pieces between the separators, the empty ones too.
RECURSIVE Split(_, _)
Split(s, sep) ==
  IF ~Contains(s, sep) THEN << s >>
  ELSE LET n == CHOOSE m \in 1..Len(s) : s[m] = sep /\ \A h \in 1..(m - 1) : s[h] # sep
       IN << SubSeq(s, 1, n - 1) >> \o Split(Drop(s, n), sep)

\* s.split(): the pieces between runs of whitespace, none of them empty.
Words(s) == SelectSeq(Split(s, Sign(" ")), LAMBDA w : w # << >>)

\* semver.VersionInfo.parse(s) raises ValueError unless s is the text of a version.
IsVersion(s) == Len(s) = 1 /\ s[1].c = "v"

\* What a call returned or raised.
Returned(kind) == [kind |-> kind, v |-> <<0, 0, 0>>]
Bool(b) == Returned(IF b THEN "True" ELSE "False")
ValueError == Returned("ValueError")
ReturnedVersion(v) == [kind |-> "version", v |-> v]

\* The branches with one operand: parse the rest, then compare.
Compare(version_info, rest, branch) ==
  IF ~IsVersion(rest) THEN ValueError
  ELSE LET base_version == rest[1].v
       IN CASE branch = ">" -> Bool(VLess(base_version, version_info))
            [] branch = ">=" -> Bool(VLeq(base_version, version_info))
            [] branch = "<" -> Bool(VLess(version_info, base_version))
            [] branch = "<=" -> Bool(VLeq(version_info, base_version))
            [] branch = "~" -> Bool(/\ version_info[1] = base_version[1]
                                    /\ version_info[2] = base_version[2])
            [] branch = "^" -> Bool(\/ /\ version_info[1] = base_version[1]
                                       /\ version_info[2] >= base_version[2]
                                    \/ version_info[1] > base_version[1])
            [] OTHER -> Bool(version_info = base_version)

\* The range branch: unpacking anything but two pieces raises ValueError, and
\* the chained comparison parses the upper bound only once the lower one held.
Range(version_info, pieces) ==
  IF Len(pieces) # 2 THEN ValueError
  ELSE IF ~IsVersion(pieces[1]) THEN ValueError
  ELSE IF ~VLeq(pieces[1][1].v, version_info) THEN Bool(FALSE)
  ELSE IF ~IsVersion(pieces[2]) THEN ValueError
  ELSE Bool(VLeq(version_info, pieces[2][1].v))

\* check_version: the branches in the order of the code, so a constraint that
\* starts with ">" never reaches the test for ">=".
RECURSIVE CheckVersion(_, _)
RECURSIVE AnyOf(_, _)
CheckVersion(version_info, constraint) ==
  IF StartsWith(constraint, << Sign(">") >>)
    THEN Compare(version_info, Drop(constraint, 1), ">")
  ELSE IF StartsWith(constraint, << Sign(">"), Sign("=") >>)
    THEN Compare(version_info, Drop(constraint, 2), ">=")
  ELSE IF StartsWith(constraint, << Sign("<") >>)
    THEN Compare(version_info, Drop(constraint, 1), "<")
  ELSE IF StartsWith(constraint, << Sign("<"), Sign("=") >>)
    THEN Compare(version_info, Drop(constraint, 2), "<=")
  ELSE IF StartsWith(constraint, << Sign("~") >>)
    THEN Compare(version_info, Drop(constraint, 1), "~")
  ELSE IF StartsWith(constraint, << Sign("^") >>)
    THEN Compare(version_info, Drop(constraint, 1), "^")
  ELSE IF Contains(constraint, Sign("-"))
    THEN Range(version_info, Split(constraint, Sign("-")))
  ELSE IF Contains(constraint, Sign("||"))
    THEN AnyOf(version_info, Split(constraint, Sign("||")))
  ELSE Compare(version_info, constraint, "==")

\* any(check_version(version_info, r) for r in ...): the first True ends it,
\* and so does the first exception.
AnyOf(version_info, pieces) ==
  IF pieces = << >> THEN Bool(FALSE)
  ELSE LET r == CheckVersion(version_info, Head(pieces))
       IN IF r.kind = "False" THEN AnyOf(version_info, Tail(pieces)) ELSE r

\* all(check_version(version, constraint) for constraint in constraints): the
\* first False ends it, and so does the first exception.
RECURSIVE AllOf(_, _)
AllOf(version_info, constraints) ==
  IF constraints = << >> THEN Bool(TRUE)
  ELSE LET r == CheckVersion(version_info, Head(constraints))
       IN IF r.kind = "True" THEN AllOf(version_info, Tail(constraints)) ELSE r

\* max(versions, key=semver.VersionInfo.parse)
MaxVersion(versions) == CHOOSE v \in versions : \A w \in versions : VLeq(w, v)

\* resolve_version of resolver.py, resolve_package_version of main.py.
ResolvePackageVersion(given_version, available_versions) ==
  IF given_version = << >> \/ given_version = << Sign("*") >>
    THEN IF available_versions = {} THEN ValueError
         ELSE ReturnedVersion(MaxVersion(available_versions))
  ELSE IF \E prefix \in {"git+", "npm:", "git:"} : StartsWith(given_version, << Sign(prefix) >>)
    THEN Returned("None")
  ELSE LET constraints == Words(given_version)
           checked == [v \in available_versions |-> AllOf(v, constraints)]
           valid_versions == {v \in available_versions : checked[v].kind = "True"}
       IN IF \E v \in available_versions : checked[v].kind = "ValueError" THEN ValueError
          ELSE IF valid_versions = {} THEN Returned("None")
          ELSE ReturnedVersion(MaxVersion(valid_versions))

\* The arguments of the calls. Versions have their three numbers in 0..MaxPart.
MaxPart == 2
Triples == (0..MaxPart) \X (0..MaxPart) \X (0..MaxPart)

\* The keys of package_metadata["versions"]: some of these.
Pool == {<<0, 2, 0>>, <<1, 0, 0>>, <<1, 2, 0>>, <<2, 0, 0>>}

OpSigns == {<< >>, << Sign(">") >>, << Sign(">"), Sign("=") >>, << Sign("<") >>,
            << Sign("<"), Sign("=") >>, << Sign("~") >>, << Sign("^") >>}
LowerSigns == {<< Sign(">") >>, << Sign(">"), Sign("=") >>, << Sign("~") >>, << Sign("^") >>}
UpperSigns == {<< Sign("<") >>, << Sign("<"), Sign("=") >>}

\* "1.2.0", ">=1.2.0", "^1.2.0", ...
Atoms(signs, bases) == {op \o << Ver(b) >> : op \in signs, b \in bases}

\* "1.0.0-2.0.0", "1.0.0 - 2.0.0", "1.0.0||2.0.0"
Joined(sep) == {<< Ver(a) >> \o sep \o << Ver(b) >> : a, b \in Pool}
Compound ==
  Joined(<< Sign("-") >>) \cup Joined(<< Sign(" "), Sign("-"), Sign(" ") >>)
    \cup Joined(<< Sign("||") >>)

\* The constraints check_version is called with, and the specifiers
\* resolve_version is called with: one atom, or a lower and an upper bound.
Constraints == Atoms(OpSigns, Triples) \cup Compound
Specifiers ==
  {<< >>, << Sign("*") >>, << Sign("git+"), Sign("url") >>}
    \cup Atoms(OpSigns, Pool) \cup Compound
    \cup {a \o << Sign(" ") >> \o b : a \in Atoms(LowerSigns, Pool), b \in Atoms(UpperSigns, Pool)}

\* The calls: the arguments, and the outcome once the call has been made.
NoCall == [fn |-> "none", spec |-> << >>, versions |-> {}, version |-> <<0, 0, 0>>,
           out |-> Returned("pending")]

CallResolveVersion ==
  /\ call.fn = "resolve_version" /\ call.out.kind = "pending"
  /\ call' = [call EXCEPT !.out = ResolvePackageVersion(call.spec, call.versions)]
  /\ UNCHANGED << yap, mp >>

CallCheckVersion ==
  /\ call.fn = "check_version" /\ call.out.kind = "pending"
  /\ call' = [call EXCEPT !.out = CheckVersion(call.version, call.spec)]
  /\ UNCHANGED << yap, mp >>

----------------------------------------------------------------------------
\* main.py. A download_package call is known by the path of package names
\* that led to it, from an entry of package_list down.

\* package_version is None for the entries of package_list.
NoVersion == << Sign("None") >>

\* The text of a specifier of the registry's documents.
Text(spec) ==
  CASE spec.pre = "npm:" -> << Sign("npm:"), Sign(spec.name), Sign("@"), Ver(spec.v) >>
    [] spec.pre # "" -> << Sign(spec.pre), Sign("url") >>
    [] spec.op = "*" -> << Sign("*") >>
    [] spec.op = "^" -> << Sign("^"), Ver(spec.v) >>
    [] OTHER -> << Ver(spec.v) >>

\* package_metadata.get("dist-tags", {}).get("latest")
Latest(name) ==
  IF Versions(name) = {} THEN Returned("None") ELSE ReturnedVersion(MaxVersion(Versions(name)))

MainPyWorkers == 200

NoMainPy == [downloaded_packages |-> {}, calls |-> Empty, cache |-> {}, store |-> {},
             node_modules |-> {}]

DownloadCall(name, given) == [name |-> name, given |-> given, pc |-> "gate", v |-> <<0, 0, 0>>]

\* executor.submit(download_and_track, ...) for every item of package_details.
RECURSIVE SubmitDownloads(_, _, _)
SubmitDownloads(calls, path, deps) ==
  IF deps = << >> THEN calls
  ELSE SubmitDownloads(
         Put(calls, Append(path, Head(deps).name),
             DownloadCall(Head(deps).name, Text(Head(deps).spec))),
         path, Tail(deps))

MpEnded(c) == c.pc \in {"returned", "nometa", "done", "failed"}
MpChildren(path) ==
  {k \in DOMAIN mp.calls : Len(k) = Len(path) + 1 /\ SubSeq(k, 1, Len(path)) = path}

\* A worker of the executor the call was submitted to is idle.
MpHasWorker(path) ==
  LET parent == SubSeq(path, 1, Len(path) - 1)
  IN Cardinality({k \in MpChildren(parent) :
                    mp.calls[k].pc # "gate" /\ ~MpEnded(mp.calls[k])}) < MainPyWorkers

\* The test of the gate of download_package.
InDownloadedPackages(name) == name \in mp.downloaded_packages

\* Lines 204-206: the test under the lock; nothing is added here.
MpGate(path) ==
  /\ path \in DOMAIN mp.calls /\ mp.calls[path].pc = "gate" /\ MpHasWorker(path)
  /\ mp' = [mp EXCEPT !.calls[path].pc =
                 IF InDownloadedPackages(mp.calls[path].name) THEN "returned" ELSE "fetch"]
  /\ UNCHANGED << yap, call >>

\* Lines 209-211: fetch_package_metadata, then the name is added.
MpFetch(path) ==
  /\ path \in DOMAIN mp.calls /\ mp.calls[path].pc = "fetch"
  /\ LET name == mp.calls[path].name
     IN IF name \notin mp.cache /\ RegistryStatus(name) # 200
        THEN mp' = [mp EXCEPT !.calls[path].pc = "failed"]
        ELSE mp' = [mp EXCEPT !.calls[path].pc = "resolve",
                              !.cache = @ \cup {name},
                              !.downloaded_packages = @ \cup {name}]
  /\ UNCHANGED << yap, call >>

\* dependencies.items() filtered by `dep not in downloaded_packages`.
RECURSIVE NotDownloaded(_)
NotDownloaded(deps) ==
  IF deps = << >> THEN << >>
  ELSE IF Head(deps).name \in mp.downloaded_packages THEN NotDownloaded(Tail(deps))
  ELSE << Head(deps) >> \o NotDownloaded(Tail(deps))

\* Lines 212-239: the version is resolved and the dependencies not yet in
\* downloaded_packages are handed to download_packages_in_parallel.
MpResolve(path) ==
  /\ path \in DOMAIN mp.calls /\ mp.calls[path].pc = "resolve"
  /\ LET c == mp.calls[path]
         latest == Latest(c.name)
         resolved_version ==
           IF c.given = NoVersion THEN latest
           ELSE ResolvePackageVersion(c.given, Versions(c.name))
     IN IF latest.kind = "None" /\ c.given = NoVersion
          THEN mp' = [mp EXCEPT !.calls[path].pc = "failed"]
        ELSE IF resolved_version.kind = "ValueError"
          THEN mp' = [mp EXCEPT !.calls[path].pc = "failed"]
        ELSE IF resolved_version.kind = "None" \/ resolved_version.v \notin Versions(c.name)
          THEN mp' = [mp EXCEPT !.calls[path].pc = "nometa"]
        ELSE mp' = [mp EXCEPT
                      !.calls = SubmitDownloads(
                                  [@ EXCEPT ![path].pc = "wait", ![path].v = resolved_version.v],
                                  path,
                                  NotDownloaded(Dependencies(c.name, resolved_version.v)))]
  /\ UNCHANGED << yap, call >>

\* Lines 241-247, once download_packages_in_parallel has returned:
\* extract_tarball_to_store, the second add, hardlink_package_from_store.
MpExtract(path) ==
  /\ path \in DOMAIN mp.calls /\ mp.calls[path].pc = "wait"
  /\ \A k \in MpChildren(path) : MpEnded(mp.calls[k])
  /\ LET c == mp.calls[path]
     IN IF c.name \notin mp.store /\ TarballStatus(c.name, c.v) # 200
        THEN mp' = [mp EXCEPT !.calls[path].pc = "failed"]
        ELSE mp' = [mp EXCEPT !.calls[path].pc = "done",
                              !.store = @ \cup {c.name},
                              !.downloaded_packages = @ \cup {c.name},
                              !.node_modules = @ \cup {c.name}]
  /\ UNCHANGED << yap, call >>

----------------------------------------------------------------------------
\* The resolver's jobs. A job is known by the package whose dependencies
\* submitted it (ROOT for the manifest) and the name it was submitted with.

ROOT == "<root>"

Job(spec) == [pc |-> "queued", spec |-> spec, pkg |-> "", want |-> spec,
              ver |-> <<0, 0, 0>>, why |-> ""]

Terminal(j) == j.pc \in {"done", "failed"}
Running(j) == j.pc \notin {"queued", "done", "failed"}

PoolShared(k) == ROOT

\* The executor a job was submitted to: each resolve_dependency_and_queue_urls
\* call builds its own.
PoolOf(k) == k[1]

\* A worker of the job's executor is idle.
HasWorker(k) ==
  Cardinality({h \in DOMAIN jobs : PoolOf(h) = PoolOf(k) /\ Running(jobs[h])}) < MaxWorkers

Children(parent) == {k \in DOMAIN jobs : k[1] = parent}

AnyFailedIgnored(parent) == FALSE

\* future.result() of some future of the call raises.
AnyFailed(parent) == \E c \in Children(parent) : jobs[c].pc = "failed"

\* executor.submit for every item of the mapping.
RECURSIVE Submit(_, _, _)
Submit(js, parent, deps) ==
  IF deps = << >> THEN js
  ELSE Submit(Put(js, <<parent, Head(deps).name>>, Job(Head(deps).spec)), parent, Tail(deps))

Set(k, j) == jobs' = [jobs EXCEPT ![k] = j]
Fail(k, why) == Set(k, [jobs[k] EXCEPT !.pc = "failed", !.why = why])

Entry(name, v) == [name |-> name, version |-> v, dependencies |-> Dependencies(name, v)]

SeenIgnored(name) == FALSE

\* The test of the seen gate.
InSeen(name) == name \in seen

\* Lines 154-166: the gate, the git return, the alias.
JobStart(k) ==
  /\ pc = "resolving" /\ k \in DOMAIN jobs /\ jobs[k].pc = "queued" /\ HasWorker(k)
  /\ LET j == jobs[k] IN
     IF InSeen(k[2])
     THEN /\ Set(k, [j EXCEPT !.pc = "done", !.why = "seen"])
          /\ UNCHANGED seen
     ELSE /\ seen' = seen \cup {k[2]}
          /\ IF j.spec.pre \in {"git+", "git:"}
             THEN Set(k, [j EXCEPT !.pc = "done", !.why = "git"])
             ELSE IF j.spec.pre = "npm:"
             THEN Set(k, [j EXCEPT !.pc = "fetch", !.pkg = SafePackageDetails(j.spec).name,
                                   !.want = SafePackageDetails(j.spec).want])
             ELSE Set(k, [j EXCEPT !.pc = "fetch", !.pkg = k[2]])
  /\ UNCHANGED << call, mp, manifest, run, pc, fresh, lockfile, plan, resolved, cache,
                  dlseen, dl, fetched, store, farm, rootlink, inlinks, i, prev >>

\* fetch_package_metadata, lines 84-96: the cache read, and on a miss the GET.
JobFetch(k) ==
  /\ pc = "resolving" /\ k \in DOMAIN jobs /\ jobs[k].pc = "fetch"
  /\ LET j == jobs[k]
         file == IF j.pkg \in DOMAIN cache THEN cache[j.pkg] ELSE "absent"
     IN CASE file = "full" -> Set(k, [j EXCEPT !.pc = "resolve"])
          [] file = "partial" -> Fail(k, "CacheError")
          [] OTHER -> IF RegistryStatus(j.pkg) # 200 THEN Fail(k, "NetworkError")
                      ELSE Set(k, [j EXCEPT !.pc = "write"])
  /\ UNCHANGED << call, mp, manifest, run, pc, fresh, lockfile, plan, resolved, seen, cache,
                  dlseen, dl, fetched, store, farm, rootlink, inlinks, i, prev >>

\* set_to_metadata_cache: open("wb") truncates the file ...
JobCacheOpen(k) ==
  /\ pc = "resolving" /\ k \in DOMAIN jobs /\ jobs[k].pc = "write"
  /\ cache' = Put(cache, jobs[k].pkg, "partial")
  /\ Set(k, [jobs[k] EXCEPT !.pc = "writing"])
  /\ UNCHANGED << call, mp, manifest, run, pc, fresh, lockfile, plan, resolved, seen,
                  dlseen, dl, fetched, store, farm, rootlink, inlinks, i, prev >>

\* ... and pickle.dump and the close leave the whole document in it, unless
\* another job that opened the same file is still writing: then what a reader
\* finds is the whole document or a part of it.
JobCacheClose(k) ==
  /\ pc = "resolving" /\ k \in DOMAIN jobs /\ jobs[k].pc = "writing"
  /\ LET shared == \E h \in DOMAIN jobs \ {k} :
                      jobs[h].pc = "writing" /\ jobs[h].pkg = jobs[k].pkg
     IN \E file \in IF shared THEN {"partial", "full"} ELSE {"full"} :
          cache' = Put(cache, jobs[k].pkg, file)
  /\ Set(k, [jobs[k] EXCEPT !.pc = "resolve"])
  /\ UNCHANGED << call, mp, manifest, run, pc, fresh, lockfile, plan, resolved, seen,
                  dlseen, dl, fetched, store, farm, rootlink, inlinks, i, prev >>

\* Lines 170-179: the version is selected and the dependencies are submitted.
JobResolve(k) ==
  /\ pc = "resolving" /\ k \in DOMAIN jobs /\ jobs[k].pc = "resolve"
  /\ LET j == jobs[k]
         str == ResolveVersion(j.want, Versions(j.pkg))
     IN IF ~Parses(j.want) THEN Fail(k, "ValueError")
        ELSE IF IsFalsy(str) THEN Fail(k, "MetadataError")
        ELSE IF ~HasVersion(j.pkg, str) THEN Fail(k, "KeyError")
        ELSE jobs' = Submit([jobs EXCEPT ![k] = [j EXCEPT !.pc = "wait", !.ver = str.v]],
                            k[2], Dependencies(j.pkg, str.v))
  /\ UNCHANGED << call, mp, manifest, run, pc, fresh, lockfile, plan, resolved, seen, cache,
                  dlseen, dl, fetched, store, farm, rootlink, inlinks, i, prev >>

\* Lines 141-142 and 181-189: every future is waited for (the executor's exit
\* waits for the rest), a failure of one is raised, else the entry is appended.
JobJoin(k) ==
  /\ pc = "resolving" /\ k \in DOMAIN jobs /\ jobs[k].pc = "wait"
  /\ \A c \in Children(k[2]) : Terminal(jobs[c])
  /\ IF AnyFailed(k[2])
     THEN /\ Fail(k, "child")
          /\ UNCHANGED plan
     ELSE /\ plan' = Append(plan, Entry(jobs[k].pkg, jobs[k].ver))
          /\ Set(k, [jobs[k] EXCEPT !.pc = "done", !.why = "appended"])
  /\ UNCHANGED << call, mp, manifest, run, pc, fresh, lockfile, resolved, seen, cache,
                  dlseen, dl, fetched, store, farm, rootlink, inlinks, i, prev >>

----------------------------------------------------------------------------
\* main.

NoLock == [exists |-> FALSE, plan |-> << >>]

\* load_lock_file: the unpickled plan, or [] when there is no yap.lock.
LoadLockFile(file) == IF file.exists THEN file.plan ELSE << >>

\* `if not lock_file_details`: main resolves when the loaded list is empty.
MustResolve(details) == details = << >>

Queue(details) == [n \in 1..Len(details) |-> "queued"]

\* Lines 284-290 and 294-295: the lockfile is loaded; the roots are submitted to
\* the resolver, or the loaded plan goes to the download stage.
Load ==
  /\ pc = "load"
  /\ plan' = LoadLockFile(lockfile)
  /\ IF MustResolve(plan')
     THEN /\ pc' = "resolving"
          /\ resolved' = TRUE
          /\ jobs' = Submit(Empty, ROOT, manifest)
          /\ UNCHANGED dl
     ELSE /\ pc' = "download"
          /\ dl' = Queue(plan')
          /\ UNCHANGED << resolved, jobs >>
  /\ UNCHANGED << call, mp, manifest, run, fresh, lockfile, seen, cache, dlseen, fetched,
                  store, farm, rootlink, inlinks, i, prev >>

\* Lines 141-142 at the top level, then 291 and 294-295: a failed job's exception
\* leaves main; else the plan is saved and the downloads are submitted.
JoinRoot ==
  /\ pc = "resolving"
  /\ \A c \in Children(ROOT) : Terminal(jobs[c])
  /\ IF AnyFailed(ROOT)
     THEN /\ pc' = "error"
          /\ UNCHANGED << lockfile, dl >>
     ELSE /\ lockfile' = [exists |-> TRUE, plan |-> plan]
          /\ pc' = "download"
          /\ dl' = Queue(plan)
  /\ UNCHANGED << call, mp, manifest, run, fresh, plan, resolved, seen, jobs, cache, dlseen,
                  fetched, store, farm, rootlink, inlinks, i, prev >>

----------------------------------------------------------------------------
\* The download stage: download_and_extract_package(plan[n]) on the pool.

Dir(f, nv) == IF nv \in DOMAIN f THEN f[nv] ELSE "absent"

EntryNV(e) == NV(e.name, e.version)

DlHasWorker ==
  Cardinality({n \in DOMAIN dl : dl[n] \notin {"queued", "done", "failed"}}) < DownloadWorkers

NeverDownloaded(name) == FALSE

\* The test of the tarball gate.
InDownloaded(name) == name \in dlseen

\* Lines 213-216.
DlStart(n) ==
  /\ pc = "download" /\ n \in DOMAIN dl /\ dl[n] = "queued" /\ DlHasWorker
  /\ IF InDownloaded(plan[n].name)
     THEN /\ dl' = [dl EXCEPT ![n] = "done"]
          /\ UNCHANGED dlseen
     ELSE /\ dlseen' = dlseen \cup {plan[n].name}
          /\ dl' = [dl EXCEPT ![n] = "check"]
  /\ UNCHANGED << call, mp, manifest, run, pc, fresh, lockfile, plan, resolved, seen, jobs, cache,
                  fetched, store, farm, rootlink, inlinks, i, prev >>

\* Lines 224-236: the directory test, the GET, the tarball on disk.
DlFetch(n) ==
  /\ pc = "download" /\ n \in DOMAIN dl /\ dl[n] = "check"
  /\ IF Dir(store, EntryNV(plan[n])) # "absent"
     THEN /\ dl' = [dl EXCEPT ![n] = "done"]
          /\ UNCHANGED fetched
     ELSE /\ fetched' = Append(fetched, EntryNV(plan[n]))
          /\ IF TarballStatus(plan[n].name, plan[n].version) # 200
             THEN dl' = [dl EXCEPT ![n] = "failed"]
             ELSE dl' = [dl EXCEPT ![n] = "extract"]
  /\ UNCHANGED << call, mp, manifest, run, pc, fresh, lockfile, plan, resolved, seen, jobs, cache,
                  dlseen, store, farm, rootlink, inlinks, i, prev >>

\* Lines 238-242: the first member is extracted and the directory appears ...
DlExtract(n) ==
  /\ pc = "download" /\ n \in DOMAIN dl /\ dl[n] = "extract"
  /\ store' = Put(store, EntryNV(plan[n]), "partial")
  /\ dl' = [dl EXCEPT ![n] = "extracting"]
  /\ UNCHANGED << call, mp, manifest, run, pc, fresh, lockfile, plan, resolved, seen, jobs, cache,
                  dlseen, fetched, farm, rootlink, inlinks, i, prev >>

\* ... and lines 239-244: the remaining ones, and the tarball is removed; an
\* exception of tar.extract leaves what was written so far.
DlFinish(n) ==
  /\ pc = "download" /\ n \in DOMAIN dl /\ dl[n] = "extracting"
  /\ IF ExtractRaises(plan[n].name, plan[n].version)
     THEN /\ dl' = [dl EXCEPT ![n] = "failed"]
          /\ UNCHANGED store
     ELSE /\ store' = Put(store, EntryNV(plan[n]), "full")
          /\ dl' = [dl EXCEPT ![n] = "done"]
  /\ UNCHANGED << call, mp, manifest, run, pc, fresh, lockfile, plan, resolved, seen, jobs, cache,
                  dlseen, fetched, farm, rootlink, inlinks, i, prev >>

\* Line 294's exit: every download has ended. The iterator executor.map returned
\* is never read, so an exception of a job stays in its future.
DlJoin ==
  /\ pc = "download"
  /\ \A n \in DOMAIN dl : dl[n] \in {"done", "failed"}
  /\ pc' = "hardlink"
  /\ i' = 1
  /\ UNCHANGED << call, mp, manifest, run, fresh, lockfile, plan, resolved, seen, jobs, cache,
                  dlseen, dl, fetched, store, farm, rootlink, inlinks, prev >>

----------------------------------------------------------------------------
\* The layout: the hardlink farm, then the symlinks, entry by entry.

\* Lines 302-318: the farm directory is made and every file the walk of the
\* store directory finds is linked into it (a missing directory yields none).
LinkFiles(had, from) ==
  CASE from = "absent" -> IF had = "absent" THEN "empty" ELSE had
    [] from = "partial" -> IF had = "full" THEN "full" ELSE "partial"
    [] OTHER -> "full"

Hardlink ==
  /\ pc = "hardlink" /\ i <= Len(plan)
  /\ LET nv == EntryNV(plan[i])
     IN farm' = Put(farm, nv, LinkFiles(Dir(farm, nv), Dir(store, nv)))
  /\ i' = i + 1
  /\ UNCHANGED << call, mp, manifest, run, pc, fresh, lockfile, plan, resolved, seen, jobs, cache,
                  dlseen, dl, fetched, store, rootlink, inlinks, prev >>

HardlinkDone ==
  /\ pc = "hardlink" /\ i > Len(plan)
  /\ pc' = "symlink"
  /\ i' = 1
  /\ UNCHANGED << call, mp, manifest, run, fresh, lockfile, plan, resolved, seen, jobs, cache,
                  dlseen, dl, fetched, store, farm, rootlink, inlinks, prev >>

\* The symlinks of node_modules: root from name to farm directory, inl the links
\* <farm>/node_modules/<dep>, each to node_modules/<dep>; err once os.symlink raised.
InLink(nv, d) == [farm |-> nv, dep |-> d]

\* Path.exists() of node_modules/<name>: the link is there and so is its target.
RootExists(fs, name) == name \in DOMAIN fs.root /\ fs.root[name] \in DOMAIN farm

\* create_symlink(farm directory, node_modules/<name>).
CreateRoot(fs, name, nv) ==
  IF fs.err THEN fs
  ELSE IF name \in DOMAIN fs.root /\ ~RootExists(fs, name) THEN [fs EXCEPT !.err = TRUE]
  ELSE [fs EXCEPT !.root = Put(fs.root, name, nv)]

\* create_symlink(node_modules/<d>, node_modules/<name>/node_modules/<d>), the
\* destination reached through node_modules/<name>: a link that is there is
\* unlinked only if exists(), which follows it, is true; os.symlink raises
\* FileExistsError over the dangling one that stays.
CreateIn(fs, name, d) ==
  IF fs.err THEN fs
  ELSE LET l == InLink(fs.root[name], d)
       IN IF l \in fs.inl /\ ~RootExists(fs, d) THEN [fs EXCEPT !.err = TRUE]
          ELSE [fs EXCEPT !.inl = @ \cup {l}]

\* symlink_dependencies.
RECURSIVE SymlinkDependencies(_, _, _)
SymlinkDependencies(fs, name, deps) ==
  IF deps = << >> THEN fs
  ELSE SymlinkDependencies(CreateIn(fs, name, Head(deps).name), name, Tail(deps))

\* Lines 322-327 for one entry.
SymlinkEntry(fs, e) ==
  SymlinkDependencies(CreateIn(CreateRoot(fs, e.name, EntryNV(e)), e.name, e.name),
                      e.name, e.dependencies)

Symlink ==
  /\ pc = "symlink" /\ i <= Len(plan)
  /\ LET fs == SymlinkEntry([root |-> rootlink, inl |-> inlinks, err |-> FALSE], plan[i])
     IN /\ rootlink' = fs.root
        /\ inlinks' = fs.inl
        /\ pc' = IF fs.err THEN "error" ELSE pc
  /\ i' = i + 1
  /\ UNCHANGED << call, mp, manifest, run, fresh, lockfile, plan, resolved, seen, jobs, cache,
                  dlseen, dl, fetched, store, farm, prev >>

\* Line 329: "Packages installed successfully."
SymlinkDone ==
  /\ pc = "symlink" /\ i > Len(plan)
  /\ pc' = "done"
  /\ UNCHANGED << call, mp, manifest, run, fresh, lockfile, plan, resolved, seen, jobs, cache,
                  dlseen, dl, fetched, store, farm, rootlink, inlinks, i, prev >>

----------------------------------------------------------------------------
\* The program is started again in the same project directory: as it was left
\* (keep), or after yap.lock and node_modules were deleted. The module-level
\* sets start empty; the store and the metadata cache stay.

NoPrev == [pc |-> "none", fresh |-> FALSE, lock |-> NoLock, root |-> Empty, inl |-> {},
           farm |-> Empty]

Restart(keep) ==
  /\ pc \in {"done", "error"} /\ run < MaxRuns
  /\ run' = run + 1
  /\ prev' = [pc |-> pc, fresh |-> fresh, lock |-> lockfile, root |-> rootlink, inl |-> inlinks,
              farm |-> farm]
  /\ pc' = "load"
  /\ plan' = << >> /\ resolved' = FALSE /\ seen' = {} /\ jobs' = Empty
  /\ dlseen' = {} /\ dl' = << >> /\ fetched' = << >> /\ i' = 0
  /\ IF keep
     THEN /\ fresh' = (~lockfile.exists /\ DOMAIN farm = {} /\ DOMAIN rootlink = {} /\ inlinks = {})
          /\ UNCHANGED << lockfile, farm, rootlink, inlinks >>
     ELSE /\ fresh' = TRUE
          /\ lockfile' = NoLock /\ farm' = Empty /\ rootlink' = Empty /\ inlinks' = {}
  /\ UNCHANGED << call, mp, manifest, cache, store >>

----------------------------------------------------------------------------
InitYap(m) ==
  /\ manifest = m
  /\ run = 1 /\ pc = "load" /\ fresh = TRUE
  /\ lockfile = NoLock /\ plan = << >> /\ resolved = FALSE
  /\ seen = {} /\ jobs = Empty /\ cache = Empty
  /\ dlseen = {} /\ dl = << >> /\ fetched = << >>
  /\ store = Empty /\ farm = Empty /\ rootlink = Empty /\ inlinks = {}
  /\ i = 0 /\ prev = NoPrev

InitWith(m) == InitYap(m) /\ call = NoCall /\ mp = NoMainPy

Init == \E m \in Manifests : InitWith(m)

Next ==
  \/ Load
  \/ \E k \in DOMAIN jobs : JobStart(k)
  \/ \E k \in DOMAIN jobs : JobFetch(k)
  \/ \E k \in DOMAIN jobs : JobCacheOpen(k)
  \/ \E k \in DOMAIN jobs : JobCacheClose(k)
  \/ \E k \in DOMAIN jobs : JobResolve(k)
  \/ \E k \in DOMAIN jobs : JobJoin(k)
  \/ JoinRoot
  \/ \E n \in DOMAIN dl : DlStart(n)
  \/ \E n \in DOMAIN dl : DlFetch(n)
  \/ \E n \in DOMAIN dl : DlExtract(n)
  \/ \E n \in DOMAIN dl : DlFinish(n)
  \/ DlJoin
  \/ Hardlink \/ HardlinkDone \/ Symlink \/ SymlinkDone
  \/ \E keep \in BOOLEAN : Restart(keep)

Spec == Init /\ [][Next]_vars

\* The run on the manifest of two packages that share a dependency, each with
\* its own specifier for it.
RaceManifest == << Dep("x", Exact(V100)), Dep("y", Exact(V100)) >>
InitRace == InitWith(RaceManifest)
RaceSpec == InitRace /\ [][Next]_vars

\* resolver.py alone: one call of resolve_version or of check_version.
InitSemver ==
  /\ InitYap(<< >>) /\ mp = NoMainPy
  /\ \/ \E spec \in Specifiers, versions \in SUBSET Pool :
          call = [NoCall EXCEPT !.fn = "resolve_version", !.spec = spec, !.versions = versions]
     \/ \E constraint \in Constraints, version \in Triples :
          call = [NoCall EXCEPT !.fn = "check_version", !.spec = constraint, !.version = version]

NextSemver == CallResolveVersion \/ CallCheckVersion

SemverSpec == InitSemver /\ [][NextSemver]_vars

\* main.py alone: download_packages_in_parallel(package_list) for a package_list
\* of one or two names.
PackageLists == {{a, b} : a, b \in {"leaf", "x", "y", "p", "q", "gd", "wd", "ua", "badtar", "shared"}}

InitMainPy ==
  /\ InitYap(<< >>) /\ call = NoCall
  /\ \E package_list \in PackageLists :
       mp = [NoMainPy EXCEPT
               !.calls = [path \in {<< name >> : name \in package_list} |->
                            DownloadCall(path[1], NoVersion)]]

NextMainPy ==
  \/ \E path \in DOMAIN mp.calls : MpGate(path)
  \/ \E path \in DOMAIN mp.calls : MpFetch(path)
  \/ \E path \in DOMAIN mp.calls : MpResolve(path)
  \/ \E path \in DOMAIN mp.calls : MpExtract(path)

MainPySpec == InitMainPy /\ [][NextMainPy]_vars

\* The resolver stage alone, on deep and cyclic graphs, its threads scheduled fairly.
InitDeep == \E m \in DeepManifests : InitWith(m)

NextResolve ==
  \/ Load
  \/ \E k \in DOMAIN jobs : JobStart(k)
  \/ \E k \in DOMAIN jobs : JobFetch(k)
  \/ \E k \in DOMAIN jobs : JobCacheOpen(k)
  \/ \E k \in DOMAIN jobs : JobCacheClose(k)
  \/ \E k \in DOMAIN jobs : JobResolve(k)
  \/ \E k \in DOMAIN jobs : JobJoin(k)
  \/ JoinRoot

DeepSpec == InitDeep /\ [][NextResolve]_vars /\ WF_vars(NextResolve)

----------------------------------------------------------------------------
\* What the claims speak of.

\* resolve_dependency_and_queue_urls(dependencies, ...) of main has returned.
ResolverReturned == resolved /\ pc \notin {"load", "resolving", "error"}

DepNames(e) == {e.dependencies[n].name : n \in 1..Len(e.dependencies)}

\* yap.lock as this run found it.
StartLock == IF run = 1 \/ fresh THEN NoLock ELSE prev.lock

Occurrences(seq, x) == Cardinality({n \in 1..Len(seq) : seq[n] = x})

----------------------------------------------------------------------------
\* C1: once the resolver has returned, no two entries of the plan have the
\* same name.
C1_UniqueNames ==
  ResolverReturned =>
    \A a, b \in 1..Len(plan) : a # b => plan[a].name # plan[b].name

\* C2: once the resolver has returned without error, every dependency name of
\* every plan entry is the name of some plan entry.
C2_PlanClosed ==
  ResolverReturned =>
    \A a \in 1..Len(plan) : \A d \in DepNames(plan[a]) :
      \E b \in 1..Len(plan) : plan[b].name = d

\* C3: in the plan the resolver produced, the entry of a dependency that has
\* one stands before the entry of its dependent.
C3_PostOrder ==
  ResolverReturned =>
    \A a, b \in 1..Len(plan) : plan[b].name \in DepNames(plan[a]) => b < a

\* C4: under fair scheduling the resolver stage always ends, with every
\* submitted job completed; no state of it is stuck.
C4_ResolutionTerminates ==
  (pc = "resolving") ~> (pc # "resolving" /\ \A k \in DOMAIN jobs : Terminal(jobs[k]))

C4_Witness ==
  /\ pc = "download"
  /\ \E k \in DOMAIN jobs : k[2] = Chain[ChainLen] /\ jobs[k].why = "appended"
  /\ Len(plan) >= ChainLen

\* C5: a failed resolver job keeps main out of the download and layout stages
\* and yap.lock as it was, and its failure reaches every job above it, up to
\* main; yap.lock is written only when every job has completed without failure.
C5_FailureAborts ==
  /\ (\E k \in DOMAIN jobs : jobs[k].pc = "failed") =>
        /\ pc \in {"resolving", "error"}
        /\ lockfile = StartLock
        /\ dl = << >> /\ fetched = << >>
        /\ (\A k \in DOMAIN jobs : Terminal(jobs[k])) =>
              \E c \in DOMAIN jobs : c[1] = ROOT /\ jobs[c].pc = "failed"
  /\ pc = "error" /\ i = 0 => lockfile = StartLock
  /\ ResolverReturned => lockfile.exists /\ \A k \in DOMAIN jobs : jobs[k].pc = "done"

C5_Witness ==
  /\ pc = "error" /\ ~lockfile.exists
  /\ \E k \in DOMAIN jobs : k[1] # ROOT /\ jobs[k].why = "NetworkError"
  /\ Len(plan) > 0

\* C6: a tarball fetch that failed ends the run in an error: the run does not
\* go on through the layout to its successful end.
C6_TarballErrorSurfaced ==
  (\E n \in DOMAIN dl : dl[n] = "failed") => pc \notin {"hardlink", "symlink", "done"}

\* C7: when yap.lock exists at start-up, whatever plan it holds, the resolver
\* stage is not run and the plan in use is the one the lockfile held.
C7_LockfileSkipsResolver ==
  (pc # "load" /\ StartLock.exists) =>
     DOMAIN jobs = {} /\ plan = StartLock.plan

\* C8: in one run the tarball of a (name, version) is fetched at most once.
C8_FetchedOnce ==
  \A n \in 1..Len(fetched) : Occurrences(fetched, fetched[n]) = 1

C8_Witness ==
  /\ pc = "hardlink"
  /\ \E a, b \in 1..Len(plan) : a # b /\ EntryNV(plan[a]) = EntryNV(plan[b])
                                   /\ Occurrences(fetched, EntryNV(plan[a])) = 1

\* C9: two runs that both start with no lockfile and an empty node_modules
\* and both end successfully leave the same yap.lock and the same symlinks.
C9_SameOutcome ==
  (run > 1 /\ pc = "done" /\ fresh /\ prev.fresh /\ prev.pc = "done") =>
     /\ lockfile = prev.lock
     /\ rootlink = prev.root
     /\ inlinks = prev.inl

\* C10: when the layout stage has completed, every symlink points to a
\* directory that exists.
C10_SymlinkTargetsExist ==
  pc = "done" =>
     /\ \A name \in DOMAIN rootlink : rootlink[name] \in DOMAIN farm
     /\ \A l \in inlinks : l.dep \in DOMAIN rootlink /\ rootlink[l.dep] \in DOMAIN farm

\* C11: when the layout has completed, node_modules/<name> of every plan entry
\* leads to the farm directory of that entry's version, whose files are the
\* hardlinks of every file of the entry's store directory, which is there and
\* whole.
C11_InstalledFromStore ==
  pc = "done" =>
    \A n \in 1..Len(plan) :
      /\ plan[n].name \in DOMAIN rootlink
      /\ rootlink[plan[n].name] = EntryNV(plan[n])
      /\ Dir(store, EntryNV(plan[n])) = "full"
      /\ Dir(farm, EntryNV(plan[n])) = "full"

\* C12: a job whose specifier is of an unsupported form (git+, git:, file:, a
\* URL) returns normally and appends no entry.
Unsupported == {"git+", "git:", "file:", "http"}

C12_UnsupportedSkipped ==
  \A k \in DOMAIN jobs :
    (jobs[k].spec.pre \in Unsupported /\ Terminal(jobs[k])) =>
       jobs[k].pc = "done" /\ jobs[k].why \in {"seen", "git"}

\* C13: a store directory that holds only part of its package belongs to a
\* download that is extracting it at this moment: no failed extraction and no
\* later run leaves or meets a partial directory.
C13_StoreAtomic ==
  \A nv \in DOMAIN store :
    store[nv] = "partial" =>
      \E n \in DOMAIN dl : dl[n] = "extracting" /\ EntryNV(plan[n]) = nv

\* The jobs for a name that went past the seen gate.
PassedGate(name) ==
  {k \in DOMAIN jobs : k[2] = name /\ jobs[k].pc # "queued" /\ jobs[k].why # "seen"}

\* C16: of the jobs for one name at most one goes past the seen gate; each
\* other one returns at the gate, with no metadata fetched and nothing appended
\* (the plan grows by one entry per job that went on to append); within a run
\* no name leaves the seen set.
C16_GateState ==
  /\ \A k \in DOMAIN jobs : Cardinality(PassedGate(k[2])) <= 1
  /\ \A k \in DOMAIN jobs : jobs[k].pc # "queued" =>
        /\ k[2] \in seen
        /\ jobs[k].why = "seen" => jobs[k].pc = "done" /\ jobs[k].pkg = ""
  /\ pc = "resolving" =>
        Len(plan) = Cardinality({k \in DOMAIN jobs : jobs[k].why = "appended"})

C16_SeenGateOnce == []C16_GateState /\ [][run' = run => seen \subseteq seen']_vars

C16_Witness ==
  \E a, b \in DOMAIN jobs :
    /\ a # b /\ a[2] = b[2]
    /\ jobs[a].why = "appended" /\ jobs[b].why = "seen"

\* C17: at no moment of the resolution stage are more than ten resolver jobs
\* executing.
C17_AtMostTenRunning ==
  Cardinality({k \in DOMAIN jobs : Running(jobs[k])}) <= MaxWorkers

\* C18: no two jobs are writing the cache file of one key at the same time,
\* and no job reads a cache file that another job has opened and not yet
\* written whole.
C18_CacheExclusive ==
  /\ \A a, b \in DOMAIN jobs :
        (a # b /\ jobs[a].pc = "writing" /\ jobs[b].pc = "writing") =>
           jobs[a].pkg # jobs[b].pkg
  /\ \A k \in DOMAIN jobs : jobs[k].why # "CacheError"

\* C20: a run that goes through the layout again over the plan of a first
\* successful run, on the node_modules that run left, ends without error, with
\* the same symlinks and the same hardlinked files.
C20_LayoutRepeatable ==
  (run > 1 /\ prev.pc = "done" /\ ~fresh /\ plan = prev.lock.plan
     /\ pc \in {"done", "error"} /\ i > 0) =>
    /\ pc = "done"
    /\ rootlink = prev.root
    /\ inlinks = prev.inl
    /\ farm = prev.farm

\* npm's meaning of the atoms <operator><version>.
NpmCaret(v, c) ==
  IF c[1] > 0 THEN v[1] = c[1] /\ VLeq(c, v)
  ELSE IF c[2] > 0 THEN v[1] = 0 /\ v[2] = c[2] /\ VLeq(c, v)
  ELSE v = c

NpmAtom(v, atom) ==
  LET op == SubSeq(atom, 1, Len(atom) - 1)
      c == atom[Len(atom)].v
  IN CASE op = << Sign(">") >> -> VLess(c, v)
       [] op = << Sign(">"), Sign("=") >> -> VLeq(c, v)
       [] op = << Sign("<") >> -> VLess(v, c)
       [] op = << Sign("<"), Sign("=") >> -> VLeq(v, c)
       [] op = << Sign("~") >> -> v[1] = c[1] /\ v[2] = c[2] /\ VLeq(c, v)
       [] op = << Sign("^") >> -> NpmCaret(v, c)
       [] OTHER -> v = c

NpmSatisfying(spec, versions) ==
  IF spec = << Sign("*") >> THEN versions
  ELSE {v \in versions : \A n \in 1..Len(Words(spec)) : NpmAtom(v, Words(spec)[n])}

\* A specifier made of atoms <operator><version>, or empty, or "*".
PlainSpecifier(spec) ==
  \/ spec = << Sign("*") >>
  \/ \A n \in 1..Len(Words(spec)) : Words(spec)[n] \in Atoms(OpSigns, Pool)

\* C14: resolve_version(spec, V), for a specifier of plain atoms and V not
\* empty, returns the greatest version of V that satisfies every atom, and
\* None exactly when there is none; for "" and "*" that is the greatest of V.
C14_ResolveVersionMax ==
  (call.fn = "resolve_version" /\ call.out.kind # "pending"
     /\ PlainSpecifier(call.spec) /\ call.versions # {}) =>
    LET ok == NpmSatisfying(call.spec, call.versions)
    IN /\ call.out.kind \in {"version", "None"}
       /\ call.out.kind = "None" <=> ok = {}
       /\ call.out.kind = "version" =>
            call.out.v \in ok /\ \A w \in ok : VLeq(w, call.out.v)

\* C15: check_version(v, "^c") is true exactly for the versions npm's caret
\* admits: same major and v >= c for c.major > 0; major 0, same minor and
\* v >= c for c.major = 0 < c.minor; v = c for c.major = c.minor = 0.
C15_CaretNpm ==
  (call.fn = "check_version" /\ call.out.kind # "pending"
     /\ Len(call.spec) = 2 /\ call.spec[1] = Sign("^") /\ IsVersion(Drop(call.spec, 1))) =>
    call.out = Bool(NpmCaret(call.version, call.spec[2].v))

\* The download_package calls for a name that went past the gate.
PastGate(name) ==
  {k \in DOMAIN mp.calls : mp.calls[k].name = name /\ mp.calls[k].pc \notin {"gate", "returned"}}

\* C19: of the download_package calls of main.py for one name at most one goes
\* past the downloaded_packages gate; the others return at it.
C19_DownloadGateOnce ==
  \A k \in DOMAIN mp.calls : Cardinality(PastGate(mp.calls[k].name)) <= 1

\* The job has been through resolve_version for a specifier that parses and
\* that no version of the registry document satisfies.
NoMatchResolved(j) ==
  /\ j.pkg # "" /\ Parses(j.want)
  /\ \A v \in Versions(j.pkg) : ~Satisfies(v, j.want)
  /\ j.pc \notin {"queued", "fetch", "write", "writing", "resolve"}
  /\ j.why \notin {"CacheError", "NetworkError"}

\* C21: a job whose specifier no version of the registry document satisfies
\* fails with the MetadataError of the `if not resolved_version` test, before
\* the version metadata is looked up, and appends no plan entry.
C21_NoMatchMetadataError ==
  \A k \in DOMAIN jobs :
    NoMatchResolved(jobs[k]) =>
      jobs[k].pc = "failed" /\ jobs[k].why = "MetadataError"

\* C22: check_version(v, ">=c") is true exactly when v >= c and
\* check_version(v, "<=c") exactly when v <= c, neither raising; and
\* resolve_version with ">=a <b" returns a version v with a <= v < b, or None.
C22_TwoCharOperators ==
  /\ (call.fn = "check_version" /\ call.out.kind # "pending" /\ Len(call.spec) = 3
        /\ IsVersion(Drop(call.spec, 2)) /\ call.spec[2] = Sign("=")) =>
       /\ call.spec[1] = Sign(">") => call.out = Bool(VLeq(call.spec[3].v, call.version))
       /\ call.spec[1] = Sign("<") => call.out = Bool(VLeq(call.version, call.spec[3].v))
  /\ (call.fn = "resolve_version" /\ call.out.kind # "pending"
        /\ Len(Words(call.spec)) = 2
        /\ Words(call.spec)[1] \in Atoms({<< Sign(">"), Sign("=") >>}, Pool)
        /\ Words(call.spec)[2] \in Atoms({<< Sign("<") >>}, Pool)) =>
       /\ call.out.kind \in {"version", "None"}
       /\ call.out.kind = "version" =>
            /\ VLeq(Words(call.spec)[1][3].v, call.out.v)
            /\ VLess(call.out.v, Words(call.spec)[2][2].v)

====
